---- MODULE Spec2Model ----
(***************************************************************************)
(* Model of Source/system.cpp (class System): the deduplicating            *)
(* diagnostics log, the throttled runtime info, the path helpers, the      *)
(* output directory and the axis swap transform.                           *)
(*                                                                         *)
(* Strings are sequences of one-character strings; the backslash is "\\".  *)
(* A message record std::pair<std::string,size_t> is the tuple             *)
(* <<text, count>>.  Time is the high_resolution_clock in whole            *)
(* milliseconds.                                                           *)
(***************************************************************************)
EXTENDS Integers, Sequences, FiniteSets, TLC

VARIABLES
    s_warnings,   \* static vector of (text, count), system.cpp:17
    s_errors,     \* system.cpp:18
    s_infos,      \* system.cpp:19
    argSilent,    \* System::argSilent, system.cpp:13
    s_outDir,     \* system.cpp:15
    s_axisSwap,   \* system.cpp:20, a 4x4 matrix as a tuple of rows
    lastInit,     \* whether the function-local static `last` was initialised
    last,         \* the static `last` of runtimeInfoSpam, system.cpp:150
    clock,        \* high_resolution_clock::now() in milliseconds
    arg,          \* the std::string argument of the path helper under test
    ret,          \* the value the last path helper / getter returned
    call,         \* the operation that ran last ("idle" between calls)
    out,          \* the lines the last call wrote to std::cerr
    thrown,       \* whether the last call left by throwing std::runtime_error
    calls,        \* <<op, text>> -> number of calls of op with that text
    shown,        \* <<op, text>> -> number of lines op wrote for that text
    loud,         \* the three vectors of the same call sequence run with argSilent clear
    shownAt,      \* clock of the last line written by runtimeInfoSpam, -1 if none
    swapLog       \* the last two setAxisSwap calls: [a1, a2, before]

vars == <<s_warnings, s_errors, s_infos, argSilent, s_outDir, s_axisSwap,
          lastInit, last, clock, arg, ret, call, out, thrown, calls, shown,
          loud, shownAt, swapLog>>

logVars   == <<s_warnings, s_errors, s_infos>>
timeVars  == <<lastInit, last, shownAt>>
pathVars  == <<arg, ret>>
axisVars  == <<s_axisSwap, swapLog>>

----------------------------------------------------------------------------
(* Bounds of the model *)

\* total number of recorded messages explored by SpecDedup and SpecErrors
MaxRepeat == 12
\* total number of recorded messages explored by SpecLog
MaxLogCalls == 3
\* last clock value explored by SpecLog, in milliseconds
MaxLogClock == 201
\* last clock value explored by SpecThrottle, in milliseconds
MaxClock == 500
\* number of segments of the paths SpecPath draws
MaxSegs == 4
\* number of failed setOutputDirectory calls explored by SpecOutDir
MaxProbeFails == 3

(* Program constants *)

\* "return e.second < 10", system.cpp:57
DisplayLimit == 10
\* "count() > 200", system.cpp:152
ThrottleMs == 200

\* message texts the logging calls are made with
Texts == { <<"a">>, <<"b">> }
\* clock advances between calls, in milliseconds
Steps == { 50, 199, 201 }
\* the one advance SpecLog uses
LongStep == 201

----------------------------------------------------------------------------
(* Finite maps with default 0 *)

Get(f, k) == IF k \in DOMAIN f THEN f[k] ELSE 0

Bump(f, k) == IF k \in DOMAIN f THEN [f EXCEPT ![k] = @ + 1] ELSE f @@ (k :> 1)

BumpIf(c, f, k) == IF c THEN Bump(f, k) ELSE f

EmptyMap == <<>>

----------------------------------------------------------------------------
(* std::cerr lines *)

\* "<prefix>" << txt << std::endl
Line(prefix, txt) == [tag |-> prefix, txt |-> txt, n |-> 0]

\* name << " (" << count << "):\n"
Header(name, count) == [tag |-> name, txt |-> <<>>, n |-> count]

\* "(" << e.second << ") " << e.first << std::endl
Entry(e) == [tag |-> "()", txt |-> e[1], n |-> e[2]]

----------------------------------------------------------------------------
(* addMessage, system.cpp:49-62 *)

\* index of the first record whose text is msg, 0 if there is none
FindMessage(vec, msg) ==
    IF \E i \in 1..Len(vec) : vec[i][1] = msg
    THEN CHOOSE i \in 1..Len(vec) :
            /\ vec[i][1] = msg
            /\ \A j \in 1..(i - 1) : vec[j][1] # msg
    ELSE 0

\* addMessage showing what its comment says, "up to 10 times": <= for <
addMessage_le(vec, msg) ==
    LET i == FindMessage(vec, msg) IN
    IF i > 0
    THEN [vec |-> [vec EXCEPT ![i] = <<msg, vec[i][2] + 1>>],
          ret |-> vec[i][2] + 1 <= DisplayLimit]
    ELSE [vec |-> Append(vec, <<msg, 1>>), ret |-> TRUE]

\* addMessage without the lookup: every call appends a record
addMessage_append(vec, msg) ==
    [vec |-> Append(vec, <<msg, 1>>), ret |-> TRUE]

\* the vector after the call and the returned "should be displayed"
addMessage(vec, msg) ==
    LET i == FindMessage(vec, msg) IN
    IF i > 0
    THEN [vec |-> [vec EXCEPT ![i] = <<msg, vec[i][2] + 1>>],
          ret |-> vec[i][2] + 1 < DisplayLimit]
    ELSE [vec |-> Append(vec, <<msg, 1>>), ret |-> TRUE]

CountOf(vec, msg) ==
    LET i == FindMessage(vec, msg) IN IF i > 0 THEN vec[i][2] ELSE 0

\* "for (const auto& e : vec) count += e.second", system.cpp:172-174
RECURSIVE TotalCount(_)
TotalCount(vec) ==
    IF vec = <<>> THEN 0 ELSE vec[1][2] + TotalCount(Tail(vec))

----------------------------------------------------------------------------
(* What one logging call does to its vector and to std::cerr *)

\* System::warning testing the flag first: "!argSilent && addMessage(...)"
warningStep_silentFirst(vec, silent, txt) ==
    IF silent THEN [vec |-> vec, lines |-> <<>>]
    ELSE LET r == addMessage(vec, txt) IN
         [vec |-> r.vec,
          lines |-> IF r.ret THEN << Line("WARNING: ", txt) >> ELSE <<>>]

\* System::warning, system.cpp:126-132
warningStep(vec, silent, txt) ==
    LET r == addMessage(vec, txt) IN
    [vec |-> r.vec,
     lines |-> IF r.ret /\ ~silent THEN << Line("WARNING: ", txt) >> ELSE <<>>]

\* System::info, system.cpp:134-138
infoStep(vec, silent, txt) ==
    LET r == addMessage(vec, txt) IN
    [vec |-> r.vec,
     lines |-> IF r.ret /\ ~silent THEN << Line("INFO: ", txt) >> ELSE <<>>]

\* System::error written like System::warning: "if(addMessage(...) && !argSilent)"
errorStep_gated(vec, silent, txt) ==
    LET r == addMessage(vec, txt) IN
    [vec |-> r.vec,
     lines |-> IF r.ret /\ ~silent THEN << Line("ERROR: ", txt) >> ELSE <<>>]

\* System::error, system.cpp:160-168 (the "errpause" prompt blocks, it changes nothing)
errorStep(vec, silent, txt) ==
    LET r == addMessage(vec, txt) IN
    [vec |-> r.vec, lines |-> << Line("ERROR: ", txt) >>]

\* System::runtimeInfo, system.cpp:140-144
runtimeInfoLines(silent, txt) ==
    IF ~silent THEN << Line("INFO: ", txt) >> ELSE <<>>

\* System::runtimeInfoSpam with "last = now" moved out of the if: every call restamps
spamStep_restamp(silent, inited, lst, now, txt) ==
    IF ~silent
    THEN LET l0 == IF inited THEN lst ELSE now IN
         [inited |-> TRUE, last |-> now,
          lines |-> IF now - l0 > ThrottleMs THEN runtimeInfoLines(silent, txt) ELSE <<>>]
    ELSE [inited |-> inited, last |-> lst, lines |-> <<>>]

\* System::runtimeInfoSpam, system.cpp:146-158: the static `last` after the
\* call, whether it is initialised, and the lines written
spamStep(silent, inited, lst, now, txt) ==
    IF ~silent
    THEN LET l0 == IF inited THEN lst ELSE now IN
         IF now - l0 > ThrottleMs
         THEN [inited |-> TRUE, last |-> now, lines |-> runtimeInfoLines(silent, txt)]
         ELSE [inited |-> TRUE, last |-> l0, lines |-> <<>>]
    ELSE [inited |-> inited, last |-> lst, lines |-> <<>>]

\* displayStrings, system.cpp:170-183
displayStrings(vec, name) ==
    IF TotalCount(vec) # 0
    THEN << Header(name, TotalCount(vec)) >> \o [i \in 1..Len(vec) |-> Entry(vec[i])]
    ELSE <<>>

----------------------------------------------------------------------------
(* Initial state: the statics of system.cpp:12-20 *)

Identity4 == << <<1, 0, 0, 0>>, <<0, 1, 0, 0>>, <<0, 0, 1, 0>>, <<0, 0, 0, 1>> >>

Init ==
    /\ s_warnings = <<>>
    /\ s_errors = <<>>
    /\ s_infos = <<>>
    /\ argSilent = FALSE
    /\ s_outDir = <<>>
    /\ s_axisSwap = Identity4
    /\ lastInit = FALSE
    /\ last = 0
    /\ clock = 0
    /\ arg = <<>>
    /\ ret = <<>>
    /\ call = "idle"
    /\ out = <<>>
    /\ thrown = FALSE
    /\ calls = EmptyMap
    /\ shown = EmptyMap
    /\ loud = [warnings |-> <<>>, errors |-> <<>>, infos |-> <<>>]
    /\ shownAt = -1
    /\ swapLog = <<>>

----------------------------------------------------------------------------
(* Operations of the diagnostics log *)

warning(txt) ==
    LET r == warningStep(s_warnings, argSilent, txt) IN
    /\ s_warnings' = r.vec
    /\ out' = r.lines
    /\ call' = "warning"
    /\ thrown' = FALSE
    /\ calls' = Bump(calls, <<"warning", txt>>)
    /\ shown' = BumpIf(r.lines # <<>>, shown, <<"warning", txt>>)
    /\ loud' = [loud EXCEPT !.warnings = warningStep(@, FALSE, txt).vec]
    /\ UNCHANGED <<s_errors, s_infos, argSilent, s_outDir, clock>>
    /\ UNCHANGED <<timeVars, pathVars, axisVars>>

info(txt) ==
    LET r == infoStep(s_infos, argSilent, txt) IN
    /\ s_infos' = r.vec
    /\ out' = r.lines
    /\ call' = "info"
    /\ thrown' = FALSE
    /\ calls' = Bump(calls, <<"info", txt>>)
    /\ shown' = BumpIf(r.lines # <<>>, shown, <<"info", txt>>)
    /\ loud' = [loud EXCEPT !.infos = infoStep(@, FALSE, txt).vec]
    /\ UNCHANGED <<s_warnings, s_errors, argSilent, s_outDir, clock>>
    /\ UNCHANGED <<timeVars, pathVars, axisVars>>

error(txt) ==
    LET r == errorStep(s_errors, argSilent, txt) IN
    /\ s_errors' = r.vec
    /\ out' = r.lines
    /\ call' = "error"
    /\ thrown' = FALSE
    /\ calls' = Bump(calls, <<"error", txt>>)
    /\ shown' = BumpIf(r.lines # <<>>, shown, <<"error", txt>>)
    /\ loud' = [loud EXCEPT !.errors = errorStep(@, FALSE, txt).vec]
    /\ UNCHANGED <<s_warnings, s_infos, argSilent, s_outDir, clock>>
    /\ UNCHANGED <<timeVars, pathVars, axisVars>>

runtimeInfo(txt) ==
    /\ out' = runtimeInfoLines(argSilent, txt)
    /\ call' = "runtimeInfo"
    /\ thrown' = FALSE
    /\ UNCHANGED <<logVars, argSilent, s_outDir, clock, calls, shown, loud>>
    /\ UNCHANGED <<timeVars, pathVars, axisVars>>

runtimeInfoSpam(txt) ==
    LET r == spamStep(argSilent, lastInit, last, clock, txt) IN
    /\ lastInit' = r.inited
    /\ last' = r.last
    /\ out' = r.lines
    /\ shownAt' = IF r.lines # <<>> THEN clock ELSE shownAt
    /\ call' = "runtimeInfoSpam"
    /\ thrown' = FALSE
    /\ UNCHANGED <<logVars, argSilent, s_outDir, clock, calls, shown, loud>>
    /\ UNCHANGED <<pathVars, axisVars>>

\* System::displayWarnings, system.cpp:185-190
displayWarnings ==
    /\ out' = displayStrings(s_warnings, "WARNINGS")
    /\ call' = "displayWarnings"
    /\ thrown' = FALSE
    /\ UNCHANGED <<logVars, argSilent, s_outDir, clock, calls, shown, loud>>
    /\ UNCHANGED <<timeVars, pathVars, axisVars>>

\* System::displayErrors, system.cpp:192-197
displayErrors ==
    /\ out' = displayStrings(s_errors, "ERRORS")
    /\ call' = "displayErrors"
    /\ thrown' = FALSE
    /\ UNCHANGED <<logVars, argSilent, s_outDir, clock, calls, shown, loud>>
    /\ UNCHANGED <<timeVars, pathVars, axisVars>>

\* System::displayInfos, system.cpp:199-204
displayInfos ==
    /\ out' = displayStrings(s_infos, "INFOS")
    /\ call' = "displayInfos"
    /\ thrown' = FALSE
    /\ UNCHANGED <<logVars, argSilent, s_outDir, clock, calls, shown, loud>>
    /\ UNCHANGED <<timeVars, pathVars, axisVars>>

\* a write to the public static System::argSilent, system.cpp:13
SetSilent(b) ==
    /\ argSilent # b
    /\ argSilent' = b
    /\ call' = "idle"
    /\ out' = <<>>
    /\ thrown' = FALSE
    /\ UNCHANGED <<logVars, s_outDir, clock, calls, shown, loud>>
    /\ UNCHANGED <<timeVars, pathVars, axisVars>>

\* d milliseconds pass between two calls
Tick(d) ==
    /\ clock' = clock + d
    /\ call' = "idle"
    /\ out' = <<>>
    /\ thrown' = FALSE
    /\ UNCHANGED <<logVars, argSilent, s_outDir, calls, shown, loud>>
    /\ UNCHANGED <<timeVars, pathVars, axisVars>>

----------------------------------------------------------------------------
(* std::string operations, positions counted from 0, npos is -1 *)

npos == -1

BS == "\\"

\* s.substr(pos, n)
substr(s, pos, n) ==
    LET e == IF pos + n > Len(s) THEN Len(s) ELSE pos + n IN SubSeq(s, pos + 1, e)

\* s.find(pat)
find(s, pat) ==
    LET hits == { p \in 0..(Len(s) - Len(pat)) : substr(s, p, Len(pat)) = pat } IN
    IF hits = {} THEN npos ELSE CHOOSE p \in hits : \A q \in hits : p <= q

\* s.find_last_of(c)
find_last_of(s, c) ==
    LET hits == { p \in 0..(Len(s) - 1) : s[p + 1] = c } IN
    IF hits = {} THEN npos ELSE CHOOSE p \in hits : \A q \in hits : q <= p

----------------------------------------------------------------------------
(* The path helpers *)

\* "make / to \", system.cpp:67-69
slashToBackslash(s) == [i \in 1..Len(s) |-> IF s[i] = "/" THEN BS ELSE s[i]]

\* "remove double /'s", system.cpp:72-76
RECURSIVE removeDoubles(_)
removeDoubles(s) ==
    LET p == find(s, <<BS, BS>>) IN
    IF p = npos THEN s
    ELSE removeDoubles(substr(s, 0, p) \o substr(s, p + 1, Len(s) - p - 1))

\* the scroll-back loop left out: the cut starts one before the match
scrollBack_once(s, p) == p

\* "scroll back till \", system.cpp:84-86: from the match at p to the cut position
RECURSIVE scrollBack(_, _)
scrollBack(s, p) == IF p > 0 /\ s[p + 1] # BS THEN scrollBack(s, p - 1) ELSE p

\* "path\path2\..\file -> path\file", system.cpp:80-89
RECURSIVE collapseParents(_)
collapseParents(s) ==
    LET p == find(s, <<BS, ".", ".", BS>>) IN
    IF p = npos THEN s
    ELSE LET end == p + 3
             q == scrollBack(s, IF p > 0 THEN p - 1 ELSE p)
         IN collapseParents(substr(s, 0, q) \o substr(s, end, Len(s) - end))

\* System::fixPath, system.cpp:64-92
fixPath(s) == collapseParents(removeDoubles(slashToBackslash(s)))

\* System::removeFileEnding, system.cpp:94-100
removeFileEnding(s) ==
    LET pos == find_last_of(s, ".") IN
    IF pos # npos THEN substr(s, 0, pos) ELSE s

\* System::getFileDirectory, system.cpp:102-115
getFileDirectory(s) ==
    LET pos == find_last_of(s, BS) IN
    IF pos # npos THEN substr(s, 0, pos + 1)
    ELSE LET pos2 == find_last_of(s, "/") IN
         IF pos2 # npos THEN substr(s, 0, pos2 + 1) ELSE s

\* System::getFilename, system.cpp:117-124
getFilename(s) ==
    LET f == fixPath(s)
        pos == find_last_of(f, BS)
    IN IF pos # npos THEN substr(f, pos + 1, Len(f) - pos - 1) ELSE f

\* a path helper is applied to the drawn argument
PathCall(op, value) ==
    /\ ret' = value
    /\ call' = op
    /\ out' = <<>>
    /\ thrown' = FALSE
    /\ UNCHANGED <<logVars, argSilent, s_outDir, clock, arg, calls, shown, loud>>
    /\ UNCHANGED <<timeVars, axisVars>>

CallFixPath == PathCall("fixPath", fixPath(arg))

CallRemoveFileEnding == PathCall("removeFileEnding", removeFileEnding(arg))

CallGetFileDirectory == PathCall("getFileDirectory", getFileDirectory(arg))

CallGetFilename == PathCall("getFilename", getFilename(arg))

----------------------------------------------------------------------------
(* The output directory *)

\* "cannot write in output directory " + dir, system.cpp:231
NotWritableText(dir) == << "cannot write in output directory " >> \o dir

\* setOutputDirectory storing the directory only after the probe succeeded
setOutputDirectory_probeFirst(dir, canWrite) ==
    /\ arg' = dir
    /\ call' = "setOutputDirectory"
    /\ IF canWrite
       THEN /\ s_outDir' = getFileDirectory(dir)
            /\ out' = <<>>
            /\ thrown' = FALSE
            /\ UNCHANGED <<s_errors, calls, shown, loud>>
       ELSE LET txt == NotWritableText(dir)
                r == errorStep(s_errors, argSilent, txt)
            IN /\ s_outDir' = s_outDir
               /\ s_errors' = r.vec
               /\ out' = r.lines
               /\ thrown' = TRUE
               /\ calls' = Bump(calls, <<"error", txt>>)
               /\ shown' = BumpIf(r.lines # <<>>, shown, <<"error", txt>>)
               /\ loud' = [loud EXCEPT !.errors = errorStep(@, FALSE, txt).vec]
    /\ UNCHANGED <<s_warnings, s_infos, argSilent, clock, ret>>
    /\ UNCHANGED <<timeVars, axisVars>>

\* System::setOutputDirectory, system.cpp:219-233; canWrite is whether
\* fopen(dir + "tmp", "wb") succeeds
setOutputDirectory(dir, canWrite) ==
    /\ s_outDir' = getFileDirectory(dir)
    /\ arg' = dir
    /\ call' = "setOutputDirectory"
    /\ IF canWrite
       THEN /\ out' = <<>>
            /\ thrown' = FALSE
            /\ UNCHANGED <<s_errors, calls, shown, loud>>
       ELSE LET txt == NotWritableText(dir)
                r == errorStep(s_errors, argSilent, txt)
            IN /\ s_errors' = r.vec
               /\ out' = r.lines
               /\ thrown' = TRUE
               /\ calls' = Bump(calls, <<"error", txt>>)
               /\ shown' = BumpIf(r.lines # <<>>, shown, <<"error", txt>>)
               /\ loud' = [loud EXCEPT !.errors = errorStep(@, FALSE, txt).vec]
    /\ UNCHANGED <<s_warnings, s_infos, argSilent, clock, ret>>
    /\ UNCHANGED <<timeVars, axisVars>>

\* System::getOutputDirectory, system.cpp:235-238
getOutputDirectory ==
    /\ ret' = s_outDir
    /\ call' = "getOutputDirectory"
    /\ out' = <<>>
    /\ thrown' = FALSE
    /\ UNCHANGED <<logVars, argSilent, s_outDir, clock, arg, calls, shown, loud>>
    /\ UNCHANGED <<timeVars, axisVars>>

----------------------------------------------------------------------------
(* The axis swap *)

\* the product of two 4x4 matrices, as "s_axisSwap *= swapMat" forms it
MatMul(A, B) ==
    [i \in 1..4 |-> [j \in 1..4 |->
        A[i][1] * B[1][j] + A[i][2] * B[2][j] + A[i][3] * B[3][j] + A[i][4] * B[4][j]]]

\* a swap that only copies: row a1 becomes row a2, row a2 is kept
swapMat_copy(a1, a2) ==
    [i \in 1..4 |-> IF i = a1 + 1 THEN Identity4[a2 + 1] ELSE Identity4[i]]

\* identity4x4() with the row vectors a1 and a2 swapped, system.cpp:246-249
swapMat(a1, a2) ==
    [i \in 1..4 |-> IF i = a1 + 1 THEN Identity4[a2 + 1]
                    ELSE IF i = a2 + 1 THEN Identity4[a1 + 1]
                    ELSE Identity4[i]]

\* System::setAxisSwap, system.cpp:240-252; the asserts are the guard
setAxisSwap(a1, a2) ==
    /\ a1 >= 0 /\ a1 <= 2
    /\ a2 >= 0 /\ a2 <= 2
    /\ a1 # a2
    /\ s_axisSwap' = MatMul(s_axisSwap, swapMat(a1, a2))
    /\ swapLog' = (IF Len(swapLog) = 2 THEN Tail(swapLog) ELSE swapLog)
                    \o << [a1 |-> a1, a2 |-> a2, before |-> s_axisSwap] >>
    /\ call' = "setAxisSwap"
    /\ out' = <<>>
    /\ thrown' = FALSE
    /\ UNCHANGED <<logVars, argSilent, s_outDir, clock, ret, arg, calls, shown, loud>>
    /\ UNCHANGED timeVars

\* System::getAxisSwap, system.cpp:254-257
getAxisSwap ==
    /\ ret' = s_axisSwap
    /\ call' = "getAxisSwap"
    /\ out' = <<>>
    /\ thrown' = FALSE
    /\ UNCHANGED <<logVars, argSilent, s_outDir, clock, arg, calls, shown, loud>>
    /\ UNCHANGED <<timeVars, axisVars>>

\* System::hasAxisSwap, system.cpp:259-262
hasAxisSwap ==
    /\ ret' = (s_axisSwap # Identity4)
    /\ call' = "hasAxisSwap"
    /\ out' = <<>>
    /\ thrown' = FALSE
    /\ UNCHANGED <<logVars, argSilent, s_outDir, clock, arg, calls, shown, loud>>
    /\ UNCHANGED <<timeVars, axisVars>>

----------------------------------------------------------------------------
(* Specifications *)

Recorded == TotalCount(s_warnings) + TotalCount(s_errors) + TotalCount(s_infos)

\* the log with the silent flag left clear
NextDedup ==
    \/ \E t \in Texts : Recorded < MaxRepeat /\ warning(t)
    \/ \E t \in Texts : Recorded < MaxRepeat /\ info(t)
    \/ displayWarnings
    \/ displayInfos

SpecDedup == Init /\ [][NextDedup]_vars

\* repeated errors among warnings, the silent flag written at any time
NextErrors ==
    \/ \E t \in Texts : Recorded < MaxRepeat /\ error(t)
    \/ \E t \in Texts : Recorded < MaxRepeat /\ warning(t)
    \/ \E t \in Texts : runtimeInfo(t)
    \/ displayErrors
    \/ \E b \in BOOLEAN : SetSilent(b)

SpecErrors == Init /\ [][NextErrors]_vars

\* every logging call, the silent flag written at any time
NextLog ==
    \/ \E t \in Texts : Recorded < MaxLogCalls /\ warning(t)
    \/ \E t \in Texts : Recorded < MaxLogCalls /\ info(t)
    \/ \E t \in Texts : Recorded < MaxLogCalls /\ error(t)
    \/ \E t \in Texts : runtimeInfo(t)
    \/ \E t \in Texts : runtimeInfoSpam(t)
    \/ displayWarnings
    \/ displayErrors
    \/ displayInfos
    \/ \E b \in BOOLEAN : SetSilent(b)
    \/ clock + LongStep <= MaxLogClock /\ Tick(LongStep)

SpecLog == Init /\ [][NextLog]_vars

\* the throttled runtime info under a clock that advances between calls
NextThrottle ==
    \/ \E t \in Texts : runtimeInfo(t)
    \/ \E t \in Texts : runtimeInfoSpam(t)
    \/ \E b \in BOOLEAN : SetSilent(b)
    \/ \E d \in Steps : clock + d <= MaxClock /\ Tick(d)

SpecThrottle == Init /\ [][NextThrottle]_vars

\* the path helpers applied to a drawn path
Segs == { <<>>, <<"a">>, <<"a", "b">>, <<".", ".">> }

Seps == { BS, "/" }

RECURSIVE PathsOf(_)
PathsOf(n) ==
    IF n = 1 THEN Segs
    ELSE { p \o <<c>> \o g : p \in PathsOf(n - 1), c \in Seps, g \in Segs }

PathInputs == UNION { PathsOf(n) : n \in 1..MaxSegs }

InitPath ==
    /\ s_warnings = <<>>
    /\ s_errors = <<>>
    /\ s_infos = <<>>
    /\ argSilent = FALSE
    /\ s_outDir = <<>>
    /\ s_axisSwap = Identity4
    /\ lastInit = FALSE
    /\ last = 0
    /\ clock = 0
    /\ arg \in PathInputs
    /\ ret = <<>>
    /\ call = "idle"
    /\ out = <<>>
    /\ thrown = FALSE
    /\ calls = EmptyMap
    /\ shown = EmptyMap
    /\ loud = [warnings |-> <<>>, errors |-> <<>>, infos |-> <<>>]
    /\ shownAt = -1
    /\ swapLog = <<>>

NextPath ==
    \/ CallFixPath
    \/ CallRemoveFileEnding
    \/ CallGetFileDirectory
    \/ CallGetFilename

SpecPath == InitPath /\ [][NextPath]_vars

\* the directories setOutputDirectory is called with
OutDirs == { <<"a", BS>>, <<"a", "/", "b">>, <<"a">> }

NextOutDir ==
    \/ \E d \in OutDirs : setOutputDirectory(d, TRUE)
    \/ \E d \in OutDirs : TotalCount(s_errors) < MaxProbeFails /\ setOutputDirectory(d, FALSE)
    \/ getOutputDirectory
    \/ \E b \in BOOLEAN : SetSilent(b)

SpecOutDir == Init /\ [][NextOutDir]_vars

\* the axis swaps
NextAxis ==
    \/ \E a1 \in 0..2, a2 \in 0..2 : setAxisSwap(a1, a2)
    \/ getAxisSwap
    \/ hasAxisSwap

SpecAxis == Init /\ [][NextAxis]_vars

----------------------------------------------------------------------------
(* Properties *)

Min(a, b) == IF a < b THEN a ELSE b

Range(s) == { s[i] : i \in 1..Len(s) }

C2_ErrorAlwaysShown ==
    /\ \A t \in Texts :
          /\ Get(shown, <<"error", t>>) = Get(calls, <<"error", t>>)
          /\ CountOf(s_errors, t) = Get(calls, <<"error", t>>)
    /\ call = "error" => \E t \in Texts : out = << Line("ERROR: ", t) >>

\* the twelfth error of one text, written while the silent flag is set
C2_Witness ==
    /\ argSilent
    /\ call = "error"
    /\ out = << Line("ERROR: ", <<"a">>) >>
    /\ CountOf(s_errors, <<"a">>) = 12
    /\ Get(shown, <<"error", <<"a">>>>) = 12

\* C3: a warning, info, runtimeInfo or runtimeInfoSpam call made while the
\* silent flag is set writes nothing, and the three vectors equal those of the
\* same calls made with the flag clear.
C3_SilentOnlyHides ==
    /\ (argSilent /\ call \in {"warning", "info", "runtimeInfo", "runtimeInfoSpam"})
          => out = <<>>
    /\ loud = [warnings |-> s_warnings, errors |-> s_errors, infos |-> s_infos]

\* a throttled call that is due, made while silent, after silent recordings
C3_Witness ==
    /\ argSilent
    /\ call = "runtimeInfoSpam"
    /\ lastInit
    /\ clock - last > ThrottleMs
    /\ out = <<>>
    /\ Get(calls, <<"warning", <<"a">>>>) > Get(shown, <<"warning", <<"a">>>>)
    /\ s_errors # <<>>
    /\ s_infos # <<>>

\* each vector holds a text once, with a count >= 1 equal to the calls made
C9_Records(vec, op) ==
    /\ \A i, j \in 1..Len(vec) : vec[i][1] = vec[j][1] => i = j
    /\ \A i \in 1..Len(vec) :
          /\ vec[i][2] >= 1
          /\ vec[i][2] = Get(calls, <<op, vec[i][1]>>)
    /\ \A t \in Texts : Get(calls, <<op, t>>) > 0 => \E i \in 1..Len(vec) : vec[i][1] = t

\* records keep their place, counts never go down
C9_Grows(vec, vecNext) ==
    /\ Len(vecNext) >= Len(vec)
    /\ \A i \in 1..Len(vec) : vecNext[i][1] = vec[i][1] /\ vecNext[i][2] >= vec[i][2]

C9_State ==
    /\ C9_Records(s_warnings, "warning")
    /\ C9_Records(s_errors, "error")
    /\ C9_Records(s_infos, "info")

\* C9: after any sequence of logging and summary calls each vector holds at
\* most one record per text, with a count >= 1 equal to the number of times the
\* text was recorded; records stay in first-seen order, counts never decrease,
\* and a call changes only the vector of its own kind.
C9_VectorsWellFormed ==
    [][ /\ C9_State
        /\ C9_State'
        /\ C9_Grows(s_warnings, s_warnings')
        /\ C9_Grows(s_errors, s_errors')
        /\ C9_Grows(s_infos, s_infos')
        /\ call' # "warning" => s_warnings' = s_warnings
        /\ call' # "error" => s_errors' = s_errors
        /\ call' # "info" => s_infos' = s_infos
      ]_vars

\* two warning texts, the first-seen one repeated last, then a throttled line
C9_Witness ==
    /\ Len(s_warnings) = 2
    /\ s_warnings[1] = << <<"b">>, 2 >>
    /\ s_warnings[2] = << <<"a">>, 1 >>
    /\ s_errors = <<>>
    /\ call = "runtimeInfoSpam"
    /\ out # <<>>

\* C6 as claimed: once runtimeInfoSpam has run with the silent flag clear, a
\* throttled line has been written (the first such call writes its message).
C6_FirstCallShown ==
    (call = "runtimeInfoSpam" /\ ~argSilent) => shownAt # -1

\* C7 as claimed: after a throttled line written at shownAt, a call with the
\* silent flag clear writes its line iff clock - shownAt >= 200, and a dropped
\* call leaves the stored timestamp alone.
C7_AtLeast200 ==
    [][ (call' = "runtimeInfoSpam" /\ ~argSilent /\ shownAt # -1)
          => /\ (out' # <<>>) <=> (clock - shownAt >= 200)
             /\ out' = <<>> => last' = last
      ]_vars

\* C7 amended: after a throttled line written at shownAt, a call with the
\* silent flag clear writes its line iff clock - shownAt > 200 (201 ms or
\* more), a dropped call leaves the stored timestamp alone, and so two
\* throttled lines are more than 200 ms apart.
C7_MoreThan200 ==
    [][ (call' = "runtimeInfoSpam" /\ ~argSilent /\ shownAt # -1)
          => /\ (out' # <<>>) <=> (clock - shownAt > 200)
             /\ out' = <<>> => last' = last
             /\ out' # <<>> => shownAt' - shownAt > 200
      ]_vars

\* a call exactly 200 ms after a throttled line, dropped
C7_Witness ==
    /\ call = "runtimeInfoSpam"
    /\ ~argSilent
    /\ shownAt # -1
    /\ clock - shownAt = 200
    /\ out = <<>>
    /\ last = shownAt

\* C8: two setAxisSwap(a, b) calls in a row leave the transform as it was
\* before them (the identity, from the initial state), and hasAxisSwap
\* returns false only at the identity.
C8_SwapTwiceCancels ==
    /\ (/\ Len(swapLog) = 2
        /\ swapLog[1].a1 = swapLog[2].a1
        /\ swapLog[1].a2 = swapLog[2].a2)
          => s_axisSwap = swapLog[1].before
    /\ call = "hasAxisSwap" => (ret = FALSE <=> s_axisSwap = Identity4)

\* the same swap twice on a transform that is not the identity
C8_Witness ==
    /\ Len(swapLog) = 2
    /\ swapLog[1].a1 = 0 /\ swapLog[1].a2 = 1
    /\ swapLog[2].a1 = 0 /\ swapLog[2].a2 = 1
    /\ swapLog[1].before # Identity4
    /\ swapLog[2].before # swapLog[1].before
    /\ s_axisSwap = swapLog[1].before

\* C10: a setOutputDirectory call whose probe file cannot be created writes
\* exactly one error line, adds one to the count of its message, throws, and
\* leaves the stored directory at getFileDirectory of its argument;
\* getOutputDirectory returns the stored directory.
C10_FailedSetLeavesDirectory ==
    [][ /\ (call' = "setOutputDirectory" /\ thrown')
            => /\ out' = << Line("ERROR: ", NotWritableText(arg')) >>
               /\ CountOf(s_errors', NotWritableText(arg'))
                    = CountOf(s_errors, NotWritableText(arg')) + 1
               /\ TotalCount(s_errors') = TotalCount(s_errors) + 1
               /\ s_outDir' = getFileDirectory(arg')
        /\ call' = "getOutputDirectory" => ret' = s_outDir
      ]_vars

\* after a failed call getOutputDirectory returns the directory of the failed argument
C10_Witness ==
    /\ call = "getOutputDirectory"
    /\ ret = <<"a", "/">>
    /\ arg = <<"a", "/", "b">>
    /\ s_errors = << <<NotWritableText(<<"a", "/", "b">>), 1>> >>

\* the prefix of s that ends with the last c
UpToLast(s, c) ==
    LET k == CHOOSE i \in 1..Len(s) : s[i] = c /\ \A j \in (i + 1)..Len(s) : s[j] # c
    IN SubSeq(s, 1, k)

\* C4 as claimed: getFileDirectory returns the path up to and including the
\* last backslash, else up to and including the last forward slash, and the
\* empty string when the path holds neither.
C4_DirectoryOf ==
    call = "getFileDirectory" =>
        ret = IF BS \in Range(arg) THEN UpToLast(arg, BS)
              ELSE IF "/" \in Range(arg) THEN UpToLast(arg, "/")
              ELSE <<>>

\* arg is A \ B \..\ C with s[i] the separator before B and s[j] the one after it
C5_Form(s, i, j) ==
    /\ 1 <= i /\ i < j /\ j + 3 <= Len(s)
    /\ s[i] = BS
    /\ \A k \in (i + 1)..(j - 1) : s[k] # BS
    /\ SubSeq(s, j, j + 3) = <<BS, ".", ".", BS>>

\* A \ C
C5_Expected(s, i, j) == SubSeq(s, 1, i) \o SubSeq(s, j + 4, Len(s))

\* backslash-separated, no doubled separator: the first two passes of fixPath keep it
C5_Normal(s) ==
    /\ "/" \notin Range(s)
    /\ \A k \in 1..(Len(s) - 1) : ~(s[k] = BS /\ s[k + 1] = BS)

\* C5 as claimed: for every path A\B\..\C with B one segment, fixPath returns A\C.
C5_EveryParentRef ==
    (call = "fixPath" /\ C5_Normal(arg)) =>
        \A i, j \in 1..Len(arg) : C5_Form(arg, i, j) => ret = C5_Expected(arg, i, j)

\* C5 amended: for every path A\B\..\C with B one segment in which \..\ occurs
\* once only (B is not "..", A holds no "..\" after a separator, C does not
\* begin with "..\"), fixPath returns A\C, also when A is empty or is "..".
C5_SingleParentRef ==
    (call = "fixPath" /\ C5_Normal(arg)) =>
        \A i, j \in 1..Len(arg) :
            (/\ C5_Form(arg, i, j)
             /\ \A k \in 1..(Len(arg) - 3) :
                   SubSeq(arg, k, k + 3) = <<BS, ".", ".", BS>> => k = j)
              => ret = C5_Expected(arg, i, j)

\* ..\ab\..\a becomes ..\a
C5_Witness ==
    /\ call = "fixPath"
    /\ arg = <<".", ".", BS, "a", "b", BS, ".", ".", BS, "a">>
    /\ ret = <<".", ".", BS, "a">>

====
